---------------------------- MODULE Spec2Model ----------------------------
(***************************************************************************)
(* State-machine model of brickd's network.c: the client registry          *)
(* (_clients), the nonce counter, the two server sockets, the staged       *)
(* server-socket opener and the response dispatcher.                       *)
(***************************************************************************)
EXTENDS Integers, Sequences, FiniteSets, TLC

\* ------------------------------------------------------------------ bounds
\* width of the nonce counter in the model (uint32_t in the code)
NonceBits == 2
\* the registry never holds more than MaxClients sessions in the model
MaxClients == 3
\* socket_accept succeeds at most MaxAccepts times in the model
MaxAccepts == 4
\* the reserve handed to array_create (32 in the code), scaled down so that
\* the registry outgrows it within MaxClients appends
ClientsReserve == 2

NonceMod == 2 ^ NonceBits

\* --------------------------------------------------------------- constants
AF_INET == "AF_INET"
AF_INET6 == "AF_INET6"
Families == {AF_INET, AF_INET6}

\* the failure points of network_open_server_socket, in program order
Steps == <<"resolve", "create", "open", "dual_stack", "reuse", "bind",
           "listen", "event">>
StepSet == {Steps[k] : k \in 1..Len(Steps)}

\* a registry created relocatable
ClientsRelocatableTrue == TRUE

\* the relocatable argument of array_create(&_clients, 32, sizeof(Client), false)
ClientsRelocatable == FALSE

\* ------------------------------------------------------- daemonlib Array
\* An Array is [allocated, relocatable, gen, slots].  A non-relocatable
\* array keeps one pointer per slot to a separately allocated item; a
\* relocatable array keeps the items inline in its byte block.  gen counts
\* the moves of the byte block.  An address is <<block, offset>>: block n >= 1
\* is item allocation n, block -gen is the byte block after gen moves.

array_create(reserve, relocatable) ==
    [allocated |-> reserve, relocatable |-> relocatable, gen |-> 0,
     slots |-> <<>>]

array_count(arr) == Len(arr.slots)

\* address of item i (1-based), as array_get returns it
array_get(arr, i) ==
    IF arr.relocatable THEN <<0 - arr.gen, i>> ELSE arr.slots[i].ptr

\* grows the byte block; realloc moves it or not (moved)
array_reserve(arr, reserve, moved) ==
    IF arr.allocated >= reserve THEN arr
    ELSE [arr EXCEPT !.allocated = reserve,
                     !.gen = IF moved THEN @ + 1 ELSE @]

\* calloc of one item: the lowest block no live item occupies
item_alloc(arr) ==
    LET used == {arr.slots[k].ptr[1] : k \in 1..Len(arr.slots)}
    IN  <<CHOOSE n \in 1..(Len(arr.slots) + 1) :
              n \notin used /\ \A m \in 1..(n - 1) : m \in used, 0>>

\* appends one item holding val; the item's address is array_get(result, count)
array_append(arr, val, moved) ==
    LET a == array_reserve(arr, Len(arr.slots) + 1, moved)
        p == IF a.relocatable THEN <<0, 0>> ELSE item_alloc(a)
    IN  [a EXCEPT !.slots = Append(@, [ptr |-> p, val |-> val])]

\* removes item i; how the gap is closed is the array's business:
\* "shift" moves the tail down, "swap" moves the last item into the gap
array_remove(arr, i, strategy) ==
    LET n == Len(arr.slots)
        s == arr.slots
    IN  [arr EXCEPT !.slots =
            IF strategy = "shift"
            THEN [k \in 1..(n - 1) |-> IF k < i THEN s[k] ELSE s[k + 1]]
            ELSE [k \in 1..(n - 1) |-> IF k = i THEN s[n] ELSE s[k]]]

\* ------------------------------------------- network_open_server_socket
\* fails: the steps that fail if they are attempted.

\* whether the step is attempted at all for this address family
step_applies(step, family) == step = "dual_stack" => family = AF_INET6

\* the steps that ran successfully before the first failure (a prefix)
RECURSIVE steps_passed(_, _, _)
steps_passed(k, family, fails) ==
    IF k > Len(Steps) THEN {}
    ELSE IF ~step_applies(Steps[k], family)
         THEN steps_passed(k + 1, family, fails)
    ELSE IF Steps[k] \in fails THEN {}
    ELSE {Steps[k]} \cup steps_passed(k + 1, family, fails)

\* phase = 2 set before socket_create instead of after it
open_phase_early(passed) ==
    IF "event" \in passed THEN 3
    ELSE IF "resolve" \in passed THEN 2
    ELSE 0

\* the value of phase at the cleanup label
open_phase(passed) ==
    IF "event" \in passed THEN 3
    ELSE IF "create" \in passed THEN 2
    ELSE IF "resolve" \in passed THEN 1
    ELSE 0

\* a cleanup switch whose case 2 breaks before socket_destroy
open_cleanup_no_destroy(phase) ==
    CASE phase = 2 -> <<0, 1>>
      [] phase = 1 -> <<0, 1>>
      [] OTHER     -> <<0, 0>>

\* the cleanup switch, all cases falling through: <<socket_destroy calls,
\* freeaddrinfo calls>>
open_cleanup(phase) ==
    CASE phase = 2 -> <<1, 1>>
      [] phase = 1 -> <<0, 1>>
      [] OTHER     -> <<0, 0>>

network_open_server_socket(family, fails) ==
    LET passed == steps_passed(1, family, fails)
        phase == open_phase(passed)
        undo == open_cleanup(phase)
    IN  [ret |-> IF phase = 3 THEN 0 ELSE -1,
         resolved |-> IF "resolve" \in passed THEN 1 ELSE 0,
         created |-> IF "create" \in passed THEN 1 ELSE 0,
         added |-> IF "event" \in passed THEN 1 ELSE 0,
         destroyed |-> undo[1],
         freed |-> (IF phase = 3 THEN 1 ELSE 0) + undo[2]]

\* ------------------------------------------------ network_create_client
NULL == <<0, 0>>

\* _next_authentication_nonce++ without the increment
post_increment_stuck(nonce) == nonce

\* the counter after _next_authentication_nonce++ (uint32_t arithmetic)
post_increment(nonce) == (nonce + 1) % NonceMod

\* the Client that client_create initialises at address opaque: it keeps
\* the nonce and registers opaque with the event subsystem as its context.
\* id numbers the accepted transports, call the client_create calls.
client_create(id, call, nonce, opaque) ==
    [id |-> id, call |-> call, nonce |-> nonce, disconnected |-> FALSE,
     opaque |-> opaque]

\* a slot array_append returned and client_create has not yet filled
Blank ==
    [id |-> 0, call |-> 0, nonce |-> 0, disconnected |-> FALSE,
     opaque |-> NULL]

\* a rollback that removes the first slot
rollback_index_first(arr) == 1

\* the index network_create_client removes when client_create fails:
\* _clients.count - 1, the slot just appended (1-based here)
rollback_index(arr) == array_count(arr)

\* a failure path that leaves the appended slot in the registry
create_rollback_none(arr, strategy) == arr

\* array_remove(&_clients, _clients.count - 1, NULL): no destroy function,
\* so client_destroy does not run on the slot
create_rollback(arr, strategy) ==
    array_remove(arr, rollback_index(arr), strategy)

\* a network_create_client that consumes a nonce only when client_create
\* succeeds
network_create_client_lazy(arr, nonce, id, call, append_ok, moved, create_ok, strategy) ==
    IF ~append_ok
    THEN [clients |-> arr, nonce |-> nonce, client |-> NULL, closes |-> 0,
          destroyed |-> <<>>]
    ELSE LET a == array_append(arr, Blank, moved)
             n == array_count(a)
             client == array_get(a, n)
         IN  IF ~create_ok
             THEN [clients |-> create_rollback(a, strategy),
                   nonce |-> nonce, client |-> NULL,
                   closes |-> 0, destroyed |-> <<>>]
             ELSE [clients |->
                       [a EXCEPT !.slots[n].val =
                                     client_create(id, call, nonce, client)],
                   nonce |-> post_increment(nonce), client |-> client,
                   closes |-> 0, destroyed |-> <<>>]

\* append_ok, moved: outcome of array_append; create_ok: of client_create.
\* Returns the registry, the counter, the Client pointer (NULL on failure),
\* how often the call closed the socket it was given (it never does) and the
\* sessions it handed to client_destroy (none: the rollback passes NULL).
network_create_client(arr, nonce, id, call, append_ok, moved, create_ok, strategy) ==
    IF ~append_ok
    THEN [clients |-> arr, nonce |-> nonce, client |-> NULL, closes |-> 0,
          destroyed |-> <<>>]
    ELSE LET a == array_append(arr, Blank, moved)
             n == array_count(a)
             client == array_get(a, n)
         IN  IF ~create_ok
             THEN [clients |-> create_rollback(a, strategy),
                   nonce |-> post_increment(nonce), client |-> NULL,
                   closes |-> 0, destroyed |-> <<>>]
             ELSE [clients |->
                       [a EXCEPT !.slots[n].val =
                                     client_create(id, call, nonce, client)],
                   nonce |-> post_increment(nonce), client |-> client,
                   closes |-> 0, destroyed |-> <<>>]

\* ------------------------------------------------ network_handle_accept
\* a handler that hands the uninitialised buffer on when the lookup fails
accept_name_unset(hostname_ok, family) ==
    IF ~hostname_ok THEN ""
    ELSE IF family = AF_INET6 THEN "[host]:port" ELSE "host:port"

\* the name handed to network_create_client: "<unknown>" unless
\* socket_address_to_hostname succeeds, then the formatted host and port
accept_name(hostname_ok, family) ==
    IF ~hostname_ok THEN "<unknown>"
    ELSE IF family = AF_INET6 THEN "[host]:port" ELSE "host:port"

\* a handler that never closes the accepted socket
accept_closes_never(client) == 0

\* how often the handler calls socket_destroy and free on the accepted
\* socket, given what network_create_client returned
accept_closes(client) == IF client = NULL THEN 1 ELSE 0

\* ---------------------------------------------- network_cleanup_clients
\* a forward scan that steps on after a removal
RECURSIVE cleanup_scan_forward(_, _, _, _)
cleanup_scan_forward(arr, i, strategy, log) ==
    IF i > array_count(arr) THEN [clients |-> arr, destroyed |-> log]
    ELSE IF arr.slots[i].val.disconnected
         THEN cleanup_scan_forward(array_remove(arr, i, strategy), i + 1,
                                   strategy, Append(log, arr.slots[i].val.id))
         ELSE cleanup_scan_forward(arr, i + 1, strategy, log)

network_cleanup_clients_forward(arr, strategy) ==
    cleanup_scan_forward(arr, 1, strategy, <<>>)

\* a scan that hands a disconnected session to client_destroy and leaves
\* it in the registry
RECURSIVE cleanup_scan_keep(_, _, _, _)
cleanup_scan_keep(arr, i, strategy, log) ==
    IF i < 1 THEN [clients |-> arr, destroyed |-> log]
    ELSE IF arr.slots[i].val.disconnected
         THEN cleanup_scan_keep(arr, i - 1, strategy,
                                Append(log, arr.slots[i].val.id))
         ELSE cleanup_scan_keep(arr, i - 1, strategy, log)

\* the loop for (i = count - 1; i >= 0; --i), 1-based here; log collects the
\* ids handed to client_destroy, in call order
RECURSIVE cleanup_scan(_, _, _, _)
cleanup_scan(arr, i, strategy, log) ==
    IF i < 1 THEN [clients |-> arr, destroyed |-> log]
    ELSE IF arr.slots[i].val.disconnected
         THEN cleanup_scan(array_remove(arr, i, strategy), i - 1, strategy,
                           Append(log, arr.slots[i].val.id))
         ELSE cleanup_scan(arr, i - 1, strategy, log)

\* a pass whose scan starts one below the last index
network_cleanup_clients_skip_last(arr, strategy) ==
    cleanup_scan(arr, array_count(arr) - 1, strategy, <<>>)

network_cleanup_clients(arr, strategy) ==
    cleanup_scan(arr, array_count(arr), strategy, <<>>)

\* -------------------------------------------- network_dispatch_response
\* A delivery event is [kind, id]; a log line is [kind, id |-> 0].
Event(kind, id) == [kind |-> kind, id |-> id]

\* client_dispatch_response(client, response, force, false): the return
\* value is positive iff the delivery was selective and the session has a
\* matching pending request (matches: the ids of the sessions that have one)
client_dispatch_response(client, force, matches) ==
    IF ~force /\ client.id \in matches THEN 1 ELSE 0

\* a forced loop that runs from the last index down to i
RECURSIVE forced_loop_reverse(_, _, _)
forced_loop_reverse(arr, i, log) ==
    IF i > array_count(arr) THEN log
    ELSE Append(forced_loop_reverse(arr, i + 1, log),
                Event("forced", arr.slots[i].val.id))

\* the forced loop: every index from i up
RECURSIVE forced_loop(_, _, _)
forced_loop(arr, i, log) ==
    IF i > array_count(arr) THEN log
    ELSE forced_loop(arr, i + 1,
                     Append(log, Event("forced", arr.slots[i].val.id)))

\* the selective loop without the early return
RECURSIVE selective_loop_no_return(_, _, _, _)
selective_loop_no_return(arr, i, matches, log) ==
    IF i > array_count(arr) THEN [matched |-> FALSE, log |-> log]
    ELSE LET c == arr.slots[i].val
             r == selective_loop_no_return(arr, i + 1, matches,
                      Append(log, Event("selective", c.id)))
         IN  [matched |-> r.matched
                          \/ client_dispatch_response(c, FALSE, matches) > 0,
              log |-> r.log]

\* the selective loop: returns at the first positive result
RECURSIVE selective_loop(_, _, _, _)
selective_loop(arr, i, matches, log) ==
    IF i > array_count(arr) THEN [matched |-> FALSE, log |-> log]
    ELSE LET c == arr.slots[i].val
             l == Append(log, Event("selective", c.id))
         IN  IF client_dispatch_response(c, FALSE, matches) > 0
             THEN [matched |-> TRUE, log |-> l]
             ELSE selective_loop(arr, i + 1, matches, l)

\* the emptiness test of a dispatcher that broadcasts into an empty registry
dispatch_no_clients_never(arr) == FALSE

\* _clients.count == 0
dispatch_no_clients(arr) == array_count(arr) = 0

\* a dispatcher that broadcasts a callback selectively
dispatch_callback_selective(arr) ==
    selective_loop_no_return(arr, 1, {}, <<Event("log_broadcast", 0)>>).log

\* the sequence-number-0 branch
dispatch_callback(arr) ==
    forced_loop(arr, 1, <<Event("log_broadcast", 0)>>)

\* an orphan fallback that warns after the broadcast
dispatch_orphan_warn_last(log, arr) ==
    Append(forced_loop(arr, 1, log), Event("warn", 0))

\* a dispatcher that gives up after the selective loop found no match
dispatch_orphan_silent(log, arr) == log

\* the fallback after the selective loop found no match
dispatch_orphan(log, arr) ==
    forced_loop(arr, 1, Append(log, Event("warn", 0)))

\* the whole call: the log lines and per-session deliveries, in order
network_dispatch_response(arr, seq, matches) ==
    IF dispatch_no_clients(arr)
    THEN IF seq = 0 THEN <<Event("drop_callback", 0)>>
                    ELSE <<Event("drop_response", 0)>>
    ELSE IF seq = 0 THEN dispatch_callback(arr)
    ELSE LET r == selective_loop(arr, 1, matches,
                                 <<Event("log_dispatch", 0)>>)
         IN  IF r.matched THEN r.log ELSE dispatch_orphan(r.log, arr)

\* ----------------------------------------------------------- network_init
\* the test that makes network_init fail, with || for &&
init_no_socket_either(plain_open, websocket_open) ==
    ~plain_open \/ ~websocket_open

\* !_server_socket_plain_open && !_server_socket_websocket_open
init_no_socket(plain_open, websocket_open) ==
    ~plain_open /\ ~websocket_open

\* ------------------------------------------------------------------- state
VARIABLES
    lifecycle,      \* "start", "running", "init_failed" or "exited"
    auth,           \* authentication.secret is configured
    websocket_port, \* listen.websocket_port: 0 or 1 (any nonzero port)
    removal,        \* how array_remove closes a gap: "shift" or "swap"
    clients,        \* _clients (an Array), NoArray while not created
    next_nonce,     \* _next_authentication_nonce
    nonce_seed,     \* the value network_init left in the counter
    plain_open,     \* _server_socket_plain_open
    websocket_open, \* _server_socket_websocket_open
    plain_sock,     \* _server_socket_plain: calls made on it so far
    websocket_sock, \* _server_socket_websocket: calls made on it so far
    accepts,        \* number of connections socket_accept has returned
    creates,        \* number of client_create calls made
    last,           \* the last operation and what it did
    o_family,       \* opener run: ai_family of the resolved address
    o_fails,        \* opener run: the steps that fail if attempted
    o_result        \* opener run: what the call did

net_vars == <<lifecycle, auth, websocket_port, removal, clients, next_nonce,
              nonce_seed, plain_open, websocket_open, plain_sock,
              websocket_sock, accepts, creates, last>>
opener_vars == <<o_family, o_fails, o_result>>
vars == <<net_vars, opener_vars>>

NoArray == [allocated |-> 0, relocatable |-> FALSE, gen |-> 0, slots |-> <<>>]
NoSocket == [created |-> 0, destroyed |-> 0, added |-> 0, removed |-> 0]
NotRun == [ret |-> 1]

\* the calls one opener run made on its server socket
SocketAfterOpen(r) ==
    [created |-> r.created, destroyed |-> r.destroyed, added |-> r.added,
     removed |-> 0]

\* the registered sessions, in index order
Registered(arr) == [k \in 1..array_count(arr) |-> arr.slots[k].val]
RegisteredIds(arr) == {arr.slots[k].val.id : k \in 1..array_count(arr)}
IdsInOrder(arr) == [k \in 1..array_count(arr) |-> arr.slots[k].val.id]

NetInit ==
    /\ lifecycle = "start"
    /\ auth \in BOOLEAN
    /\ websocket_port \in {0, 1}
    /\ removal \in {"shift", "swap"}
    /\ clients = NoArray
    /\ next_nonce = 0
    /\ nonce_seed = 0
    /\ plain_open = FALSE
    /\ websocket_open = FALSE
    /\ plain_sock = NoSocket
    /\ websocket_sock = NoSocket
    /\ accepts = 0
    /\ creates = 0
    /\ last = [op |-> "none"]

OpenerIdle ==
    /\ o_family = AF_INET
    /\ o_fails = {}
    /\ o_result = NotRun

Init == NetInit /\ OpenerIdle

\* the failure injections network_init is run with: none, or one step
FailChoices == {{}} \cup {{s} : s \in StepSet}

\* the values get_random_uint32 returns in the model: the smallest, and the
\* largest, from which the counter wraps at its first increment
Seeds == {0, NonceMod - 1}

\* network_init: seed is get_random_uint32(), array_ok the outcome of
\* array_create, pf and wf the failures injected into the two opener calls,
\* drawn from choices
NetworkInit(choices) ==
    /\ lifecycle = "start"
    /\ \E seed \in Seeds, array_ok \in BOOLEAN,
          family \in Families, pf \in choices, wf \in choices :
        LET nonce == IF auth THEN seed ELSE next_nonce
            p == network_open_server_socket(family, pf)
            w == network_open_server_socket(family, wf)
            p_open == plain_open \/ p.ret >= 0
            w_open == websocket_open \/ (websocket_port # 0 /\ w.ret >= 0)
        IN  /\ next_nonce' = nonce
            /\ nonce_seed' = nonce
            /\ IF ~array_ok
               THEN /\ lifecycle' = "init_failed"
                    /\ last' = [op |-> "init", ret |-> -1, array |-> FALSE,
                                plain |-> "none", websocket |-> "none"]
                    /\ UNCHANGED <<clients, plain_open, websocket_open,
                                   plain_sock, websocket_sock>>
               ELSE /\ plain_open' = p_open
                    /\ websocket_open' = w_open
                    /\ plain_sock' = SocketAfterOpen(p)
                    /\ websocket_sock' = IF websocket_port # 0
                                         THEN SocketAfterOpen(w)
                                         ELSE websocket_sock
                    /\ last' = [op |-> "init",
                                ret |-> IF init_no_socket(p_open, w_open)
                                        THEN -1 ELSE 0,
                                array |-> TRUE,
                                plain |-> IF p.ret >= 0 THEN "opened"
                                                        ELSE "failed",
                                websocket |->
                                    IF websocket_port = 0 THEN "disabled"
                                    ELSE IF w.ret >= 0 THEN "opened"
                                    ELSE "failed"]
                    /\ IF init_no_socket(p_open, w_open)
                       THEN /\ clients' = NoArray
                            /\ lifecycle' = "init_failed"
                       ELSE /\ clients' = array_create(ClientsReserve,
                                                       ClientsRelocatable)
                            /\ lifecycle' = "running"
    /\ UNCHANGED <<auth, websocket_port, removal, accepts, creates,
                   opener_vars>>

\* the outcomes of socket_accept: a connection, EINTR, another error
AcceptResults == {"ok", "interrupted", "error"}

\* network_handle_accept on a readable server socket; moves: whether a
\* growing registry's byte block may move (TRUE), stay (FALSE) or both.
\* accept is the outcome of socket_accept, hostname_ok that of
\* socket_address_to_hostname, family the peer's address family.
NetworkHandleAccept(moves) ==
    /\ lifecycle = "running"
    /\ plain_open \/ websocket_open
    /\ \E accept \in AcceptResults, hostname_ok \in BOOLEAN,
          family \in Families, append_ok \in BOOLEAN, moved \in moves,
          create_ok \in BOOLEAN :
        IF accept # "ok"
        THEN /\ last' = [op |-> "accept", accepted |-> FALSE,
                         error_logged |-> accept = "error"]
             /\ UNCHANGED <<clients, next_nonce, accepts, creates>>
        ELSE /\ accepts < MaxAccepts
             /\ append_ok => array_count(clients) < MaxClients
             /\ LET id == accepts + 1
                    name == accept_name(hostname_ok, family)
                    r == network_create_client(clients, next_nonce, id,
                                               creates, append_ok, moved,
                                               create_ok, removal)
                IN  /\ clients' = r.clients
                    /\ next_nonce' = r.nonce
                    /\ accepts' = id
                    /\ creates' = IF append_ok THEN creates + 1 ELSE creates
                    /\ last' = [op |-> "accept", accepted |-> TRUE,
                                id |-> id, created |-> r.client # NULL,
                                nonce |-> next_nonce,
                                hostname_ok |-> hostname_ok, name |-> name,
                                append_ok |-> append_ok,
                                create_ok |-> append_ok /\ create_ok,
                                create_closes |-> r.closes,
                                torn |-> r.destroyed,
                                closes |-> r.closes + accept_closes(r.client)]
    /\ UNCHANGED <<lifecycle, auth, websocket_port, removal, nonce_seed,
                   plain_open, websocket_open, plain_sock, websocket_sock,
                   opener_vars>>

\* the session logic marks a registered session as disconnected
ClientDisconnect ==
    /\ lifecycle = "running"
    /\ \E k \in 1..array_count(clients) :
        /\ ~clients.slots[k].val.disconnected
        /\ clients' = [clients EXCEPT !.slots[k].val.disconnected = TRUE]
    /\ last' = [op |-> "disconnect"]
    /\ UNCHANGED <<lifecycle, auth, websocket_port, removal, next_nonce,
                   nonce_seed, plain_open, websocket_open, plain_sock,
                   websocket_sock, accepts, creates, opener_vars>>

\* network_cleanup_clients, once per event loop pass
NetworkCleanupClients ==
    /\ lifecycle = "running"
    /\ LET r == network_cleanup_clients(clients, removal)
       IN  /\ clients' = r.clients
           /\ last' = [op |-> "cleanup", destroyed |-> r.destroyed]
    /\ UNCHANGED <<lifecycle, auth, websocket_port, removal, next_nonce,
                   nonce_seed, plain_open, websocket_open, plain_sock,
                   websocket_sock, accepts, creates, opener_vars>>

\* the sessions a log shows a delivery attempt on
Invoked(log) ==
    {log[k].id : k \in {j \in 1..Len(log) :
                            log[j].kind \in {"selective", "forced"}}}

\* the sets of sessions with a matching pending request a packet is
\* dispatched against: a callback (sequence number 0) answers no request
MatchChoices(arr, seq) ==
    IF seq = 0 THEN {{}} ELSE SUBSET RegisteredIds(arr)

\* network_dispatch_response: seq is the packet's sequence number, matches
\* the sessions with a matching pending request, drop a session (or 0 for
\* none) whose transport fails while the packet is delivered to it
NetworkDispatchResponse ==
    /\ lifecycle = "running"
    /\ \E seq \in {0, 1} :
       \E matches \in MatchChoices(clients, seq),
          drop \in RegisteredIds(clients) \cup {0} :
        LET log == network_dispatch_response(clients, seq, matches)
        IN  /\ last' = [op |-> "dispatch", seq |-> seq, matches |-> matches,
                        registry |-> IdsInOrder(clients),
                        log |-> log,
                        failed |-> drop \in Invoked(log)]
            /\ clients' =
                   [clients EXCEPT !.slots =
                        [k \in 1..Len(@) |->
                            IF @[k].val.id = drop /\ drop \in Invoked(log)
                            THEN [@[k] EXCEPT !.val.disconnected = TRUE]
                            ELSE @[k]]]
    /\ UNCHANGED <<lifecycle, auth, websocket_port, removal, next_nonce,
                   nonce_seed, plain_open, websocket_open, plain_sock,
                   websocket_sock, accepts, creates, opener_vars>>

\* an exit that removes and destroys a listener whatever its open flag says
SocketAfterExitAlways(sock, open) ==
    [sock EXCEPT !.removed = @ + 1, !.destroyed = @ + 1]

\* the calls network_exit makes on a server socket whose flag is open
SocketAfterExit(sock, open) ==
    IF open THEN [sock EXCEPT !.removed = @ + 1, !.destroyed = @ + 1]
    ELSE sock

\* an array_destroy that skips the item destroy function
array_destroy_no_items(arr) == [clients |-> NoArray, destroyed |-> <<>>]

\* array_destroy(&_clients, client_destroy): hands every item to
\* client_destroy, in index order, then frees the array
array_destroy(arr) ==
    [clients |-> NoArray,
     destroyed |-> [k \in 1..array_count(arr) |-> arr.slots[k].val.id]]

\* network_exit
NetworkExit ==
    /\ lifecycle = "running"
    /\ lifecycle' = "exited"
    /\ LET r == array_destroy(clients)
       IN  /\ clients' = r.clients
           /\ last' = [op |-> "exit", destroyed |-> r.destroyed]
    /\ plain_sock' = SocketAfterExit(plain_sock, plain_open)
    /\ websocket_sock' = SocketAfterExit(websocket_sock, websocket_open)
    /\ UNCHANGED <<auth, websocket_port, removal, next_nonce, nonce_seed,
                   plain_open, websocket_open, accepts, creates,
                   opener_vars>>

Next ==
    \/ NetworkInit(FailChoices)
    \/ NetworkHandleAccept(BOOLEAN)
    \/ ClientDisconnect
    \/ NetworkCleanupClients
    \/ NetworkDispatchResponse
    \/ NetworkExit

Spec == Init /\ [][Next]_vars

\* ------------------------------------------------------------ scoped runs
\* The same machine with some inputs pinned, one run per concern.

\* Startup and shutdown alone: every configuration, every injected failure.
NextInit ==
    \/ NetworkInit(FailChoices)
    \/ NetworkExit

SpecInit == Init /\ [][NextInit]_vars

\* The registry: both listeners open without failure, no dispatch.
NextRegistry ==
    \/ NetworkInit({{}})
    \/ NetworkHandleAccept(BOOLEAN)
    \/ ClientDisconnect
    \/ NetworkCleanupClients
    \/ NetworkExit

InitRegistry == Init /\ websocket_port = 0

SpecRegistry == InitRegistry /\ [][NextRegistry]_vars

\* The dispatcher: authentication off, the plain listener only, the
\* registry's byte block never moved by realloc.
NextDispatch ==
    \/ NetworkInit({{}})
    \/ NetworkHandleAccept({FALSE})
    \/ ClientDisconnect
    \/ NetworkCleanupClients
    \/ NetworkDispatchResponse
    \/ NetworkExit

InitDispatch == Init /\ ~auth /\ websocket_port = 0

SpecDispatch == InitDispatch /\ [][NextDispatch]_vars

\* The whole life of the module with a failure injected into either
\* listener's open: authentication off, the registry's byte block never
\* moved by realloc. A dispatch changes the module's state only by flagging
\* a session disconnected, which ClientDisconnect does here.
NextLifecycle ==
    \/ NetworkInit(FailChoices)
    \/ NetworkHandleAccept({FALSE})
    \/ ClientDisconnect
    \/ NetworkCleanupClients
    \/ NetworkExit

InitLifecycle == Init /\ ~auth

SpecLifecycle == InitLifecycle /\ [][NextLifecycle]_vars

\* The event loop calls network_cleanup_clients once per pass, after the
\* handlers of the pass have run: a cleanup pass that has something to
\* remove is not put off forever. Authentication off, the plain listener
\* only.
SpecCleanupFair ==
    /\ InitDispatch
    /\ [][NextLifecycle]_vars
    /\ WF_vars(NetworkCleanupClients)

\* --------------------------------------------------------------- opener run
\* One call of network_open_server_socket on its own, for every address
\* family and every set of failing steps.
OpenerInit ==
    /\ NetInit
    /\ auth = FALSE /\ websocket_port = 0 /\ removal = "shift"
    /\ o_family \in Families
    /\ o_fails \in SUBSET StepSet
    /\ o_result = NotRun

OpenServerSocket ==
    /\ o_result = NotRun
    /\ o_result' = network_open_server_socket(o_family, o_fails)
    /\ UNCHANGED <<o_family, o_fails, net_vars>>

SpecOpener == OpenerInit /\ [][OpenServerSocket]_vars

\* ------------------------------------------------------------------ claims
\* what the last network_dispatch_response call was given and did
Dispatched == last.op = "dispatch"
IsDelivery(e) == e.kind \in {"selective", "forced"}
Deliveries == SelectSeq(last.log, IsDelivery)
Attempts(kind, ids) == [k \in 1..Len(ids) |-> Event(kind, ids[k])]
SomeMatch == \E k \in 1..Len(last.registry) : last.registry[k] \in last.matches
FirstMatch ==
    CHOOSE k \in 1..Len(last.registry) :
        /\ last.registry[k] \in last.matches
        /\ \A j \in 1..(k - 1) : last.registry[j] \notin last.matches

\* C1: a packet with sequence number 0 dispatched into a non-empty registry
\* is delivered forced to every registered session exactly once, in index
\* order, and to no session selectively.
C1_CallbackBroadcast ==
    (Dispatched /\ last.seq = 0 /\ last.registry # <<>>)
        => Deliveries = Attempts("forced", last.registry)

C1_Witness ==
    /\ Dispatched /\ last.seq = 0
    /\ Len(last.registry) = MaxClients
    /\ Len(Deliveries) = MaxClients

\* C2: for a nonzero sequence number, when some registered session reports
\* a match, the sessions up to and including the first matching one each get
\* exactly one selective attempt, in index order, the sessions after it get
\* none, and nothing is delivered forced.
C2_FirstMatchWins ==
    (Dispatched /\ last.seq # 0 /\ SomeMatch)
        => Deliveries =
               Attempts("selective", SubSeq(last.registry, 1, FirstMatch))

C2_Witness ==
    /\ Dispatched /\ last.seq # 0
    /\ Len(last.registry) = 3
    /\ last.matches = {last.registry[2]}
    /\ Len(Deliveries) = 2

\* C3: for a nonzero sequence number and a non-empty registry, when no
\* session reports a match, the call makes one selective attempt per session
\* in index order, then logs the warning, then delivers forced to every
\* session in index order.
C3_OrphanFallback ==
    (Dispatched /\ last.seq # 0 /\ last.registry # <<>> /\ ~SomeMatch)
        => last.log =
               <<Event("log_dispatch", 0)>>
               \o Attempts("selective", last.registry)
               \o <<Event("warn", 0)>>
               \o Attempts("forced", last.registry)

C3_Witness ==
    /\ Dispatched /\ last.seq # 0 /\ ~SomeMatch
    /\ Len(last.registry) = MaxClients
    /\ \E k \in 1..Len(last.log) : last.log[k].kind = "warn"

\* C4: with no session registered the call makes no delivery attempt for
\* either packet kind; all it does is log the drop notice of that kind.
C4_EmptyRegistryDrop ==
    (Dispatched /\ last.registry = <<>>)
        => /\ Deliveries = <<>>
           /\ last.log = <<Event(IF last.seq = 0 THEN "drop_callback"
                                                 ELSE "drop_response", 0)>>

C4_Witness ==
    /\ Dispatched /\ last.registry = <<>> /\ last.seq # 0
    /\ last.log = <<Event("drop_response", 0)>>

\* the ids of the sessions delivery was attempted on, in call order
DeliveryIds == [k \in 1..Len(Deliveries) |-> Deliveries[k].id]

\* C10 as stated: within one call every registered session has exactly one
\* delivery attempt made on it, in index order, whatever the packet kind
\* and the match results.
C10_EverySessionOnce == Dispatched => DeliveryIds = last.registry

\* C10 amended: within one call each pass visits the sessions in index
\* order without repeating one: a callback makes exactly one attempt on
\* every session; a response makes one attempt on each session up to the
\* first matching one and none on the sessions after it; a response no
\* session matches makes exactly two attempts on every session, the
\* selective pass over all of them before the forced pass over all of them.
C10_PassesInOrder ==
    Dispatched =>
        DeliveryIds =
            IF last.seq = 0 THEN last.registry
            ELSE IF SomeMatch THEN SubSeq(last.registry, 1, FirstMatch)
            ELSE last.registry \o last.registry

C10_Witness ==
    /\ Dispatched /\ last.seq # 0 /\ ~SomeMatch
    /\ Len(last.registry) >= 2
    /\ Len(DeliveryIds) = 2 * Len(last.registry)

\* the registered session with this id
SessionOf(arr, id) ==
    arr.slots[CHOOSE k \in 1..array_count(arr) : arr.slots[k].val.id = id].val

DisconnectedIds(arr) ==
    {arr.slots[k].val.id :
        k \in {j \in 1..array_count(arr) : arr.slots[j].val.disconnected}}

Range(seq) == {seq[k] : k \in 1..Len(seq)}

\* C5: one network_cleanup_clients pass, whatever the registry holds and
\* wherever the disconnected sessions sit, hands exactly the sessions
\* flagged disconnected to client_destroy, each once, and leaves exactly the
\* other sessions registered, unaltered; no session registered after the
\* pass is flagged disconnected.
C5_CleanupRemovesExactlyDisconnected ==
    [][last'.op = "cleanup" =>
        LET gone == DisconnectedIds(clients)
            kept == RegisteredIds(clients) \ gone
        IN  /\ Range(last'.destroyed) = gone
            /\ Len(last'.destroyed) = Cardinality(gone)
            /\ RegisteredIds(clients') = kept
            /\ array_count(clients') = Cardinality(kept)
            /\ \A id \in kept :
                   SessionOf(clients', id) = SessionOf(clients, id)
            /\ DisconnectedIds(clients') = {}]_vars

C5_Witness ==
    /\ last.op = "cleanup"
    /\ \E a \in Range(last.destroyed), b \in Range(last.destroyed),
          c \in RegisteredIds(clients) : a < c /\ c < b

\* C6: the address a registered session is stored at is the address that
\* was handed to the event subsystem when the session was created, through
\* every growth of the registry and every removal of another session.
C6_AddressStable ==
    \A k \in 1..array_count(clients) :
        array_get(clients, k) = clients.slots[k].val.opaque

C6_Witness ==
    /\ clients.allocated > ClientsReserve
    /\ clients.gen > 0
    /\ last.op = "cleanup" /\ last.destroyed # <<>>
    /\ \E k \in 1..array_count(clients) :
           clients.slots[k].val.id < last.destroyed[1]

\* C7: with authentication enabled, the nonce of a session is the seed plus
\* the number of client_create calls made before its own, modulo the counter
\* width: from one session to a later one the nonce advances by the number
\* of calls between them, and two sessions have the same nonce only when
\* that number is a multiple of the modulus, so at least the modulus.
C7_NonceMonotonic ==
    auth =>
        /\ next_nonce = (nonce_seed + creates) % NonceMod
        /\ \A k \in 1..array_count(clients) :
               LET c == clients.slots[k].val
               IN  c.nonce = (nonce_seed + c.call) % NonceMod
        /\ \A i \in 1..array_count(clients), j \in 1..array_count(clients) :
               LET a == clients.slots[i].val
                   b == clients.slots[j].val
               IN  a.call < b.call =>
                       /\ b.nonce = (a.nonce + (b.call - a.call)) % NonceMod
                       /\ a.nonce = b.nonce => b.call - a.call >= NonceMod
                       /\ b.call - a.call < NonceMod => a.nonce # b.nonce

C7_Witness ==
    /\ auth
    /\ array_count(clients) = MaxClients
    /\ \E i \in 1..array_count(clients), j \in 1..array_count(clients) :
           /\ clients.slots[j].val.call = clients.slots[i].val.call + 1
           /\ clients.slots[j].val.nonce < clients.slots[i].val.nonce

\* the opener run's inputs: whether every step that is attempted succeeds,
\* and whether the socket gets allocated
OpenerSucceeds ==
    \A s \in StepSet : step_applies(s, o_family) => s \notin o_fails
OpenerAllocates == "resolve" \notin o_fails /\ "create" \notin o_fails

\* C8: whichever steps fail, network_open_server_socket frees the resolved
\* address list exactly once if the resolution succeeded and never
\* otherwise, destroys the server socket exactly once if it was allocated
\* and the call fails and never otherwise, and returns success exactly when
\* no attempted step fails.
C8_StagedRollback ==
    o_result # NotRun =>
        /\ o_result.freed = IF "resolve" \notin o_fails THEN 1 ELSE 0
        /\ o_result.destroyed =
               IF OpenerAllocates /\ ~OpenerSucceeds THEN 1 ELSE 0
        /\ o_result.ret = IF OpenerSucceeds THEN 0 ELSE -1
        /\ o_result.ret = 0 => o_result.destroyed = 0
        /\ o_result.created = IF OpenerAllocates THEN 1 ELSE 0
        /\ o_result.added = IF OpenerSucceeds THEN 1 ELSE 0

C8_Witness ==
    /\ o_result # NotRun
    /\ o_fails = {"event"}
    /\ o_result.destroyed = 1 /\ o_result.freed = 1 /\ o_result.ret = -1

\* C9: once the client array is created, network_init returns success
\* exactly when at least one listener opened; it fails when both opens fail
\* and when the plain open fails with the WebSocket listener disabled.
C9_PartialListenerTolerance ==
    (last.op = "init" /\ last.array) =>
        /\ last.ret = 0 <=>
               (last.plain = "opened" \/ last.websocket = "opened")
        /\ (last.ret = 0) = (lifecycle = "running")
        /\ websocket_port = 0 => last.websocket = "disabled"

C9_Witness ==
    /\ last.op = "init" /\ last.array
    /\ last.plain = "opened" /\ last.websocket = "failed"
    /\ last.ret = 0 /\ lifecycle = "running"

\* the kinds of the lines and deliveries of the last call, as a set
LogKinds == {last.log[k].kind : k \in 1..Len(last.log)}
ForcedIds ==
    {last.log[k].id : k \in {j \in 1..Len(last.log) :
                                 last.log[j].kind = "forced"}}

\* C11 as stated: in every registry state, the empty one included, a
\* response with a nonzero sequence number that no session matches is never
\* dropped: the call logs the warning and delivers it forced.
C11_NeverDropped ==
    (Dispatched /\ last.seq # 0 /\ ~SomeMatch)
        => /\ "warn" \in LogKinds
           /\ "drop_response" \notin LogKinds

\* C11 amended: a response with a nonzero sequence number that no session
\* matches is never dropped while at least one session is registered: the
\* call logs the warning and then delivers the response forced to every
\* registered session; with an empty registry the call drops it, logs the
\* drop notice and neither warns nor delivers.
C11_OrphanRecoveredUnlessEmpty ==
    (Dispatched /\ last.seq # 0 /\ ~SomeMatch)
        => IF last.registry = <<>>
           THEN LogKinds = {"drop_response"}
           ELSE /\ "drop_response" \notin LogKinds
                /\ "warn" \in LogKinds
                /\ ForcedIds = Range(last.registry)
                /\ \A j \in 1..Len(last.log), k \in 1..Len(last.log) :
                       (last.log[j].kind = "warn"
                            /\ last.log[k].kind = "forced") => j < k

C11_Witness ==
    /\ Dispatched /\ last.seq # 0 /\ ~SomeMatch
    /\ Len(last.registry) = 1
    /\ "warn" \in LogKinds
    /\ ForcedIds = Range(last.registry)

\* what the last network_handle_accept call did after socket_accept
\* returned a connection
Accepted == last.op = "accept" /\ last.accepted

\* C12: when socket_accept returned a connection and network_create_client
\* fails, at the append or at client_create, the handler destroys and frees
\* the accepted socket exactly once and no session for the connection is
\* registered afterwards; when network_create_client succeeds the handler
\* does not close the socket and the session is registered.
C12_FailedCreateClosesOnce ==
    Accepted =>
        IF last.append_ok /\ last.create_ok
        THEN /\ last.created
             /\ last.closes = 0
             /\ last.id \in RegisteredIds(clients)
        ELSE /\ ~last.created
             /\ last.closes = 1
             /\ last.id \notin RegisteredIds(clients)
             /\ \A k \in 1..array_count(clients) :
                    clients.slots[k].val # Blank

C12_Witness ==
    /\ Accepted /\ last.append_ok /\ ~last.create_ok
    /\ last.closes = 1
    /\ array_count(clients) = 2

\* a listener that network_init opened and nothing has closed since
ListenerOpen(sock) ==
    sock.created = 1 /\ sock.added = 1 /\ sock.destroyed = 0 /\ sock.removed = 0

\* a listener network_exit has unregistered and destroyed, once each
ListenerClosed(sock) ==
    sock.created = 1 /\ sock.added = 1 /\ sock.destroyed = 1 /\ sock.removed = 1

\* C13: after a successful network_init and any sequence of accepts,
\* disconnects and cleanup passes, network_exit hands every session still
\* registered to client_destroy, once each, leaves no registry, and
\* unregisters and destroys, once each, exactly the listeners network_init
\* opened; a listener whose open failed or that is disabled is not touched.
C13_ExitReleasesWhatInitOpened ==
    [][last'.op = "exit" =>
        /\ Range(last'.destroyed) = RegisteredIds(clients)
        /\ Len(last'.destroyed) = array_count(clients)
        /\ clients' = NoArray
        /\ ListenerOpen(plain_sock) \/ ListenerOpen(websocket_sock)
        /\ \A s \in {<<plain_sock, plain_sock'>>,
                     <<websocket_sock, websocket_sock'>>} :
               IF ListenerOpen(s[1]) THEN ListenerClosed(s[2])
               ELSE s[2] = s[1]]_vars

C13_Witness ==
    /\ last.op = "exit" /\ Len(last.destroyed) = 2
    /\ ListenerClosed(plain_sock)
    /\ websocket_port # 0
    /\ websocket_sock.created = 1 /\ websocket_sock.destroyed = 1
    /\ websocket_sock.added = 0 /\ websocket_sock.removed = 0

\* C14: a network_create_client call that fails leaves the registry as it
\* was before the call: a failed append adds nothing, a failed client_create
\* has its just-appended last slot removed again without client_destroy
\* running; the sessions registered before are the same, at the same
\* addresses, in the same order; the call itself does not close the socket.
C14_FailedCreateRestoresRegistry ==
    [][(last'.op = "accept" /\ last'.accepted
            /\ ~(last'.append_ok /\ last'.create_ok)) =>
        /\ array_count(clients') = array_count(clients)
        /\ clients'.slots = clients.slots
        /\ \A k \in 1..array_count(clients) :
               array_get(clients', k) = array_get(clients, k)
        /\ last'.torn = <<>>
        /\ last'.create_closes = 0]_vars

C14_Witness ==
    /\ Accepted /\ last.append_ok /\ ~last.create_ok
    /\ last.torn = <<>> /\ last.create_closes = 0
    /\ array_count(clients) = 1
    /\ clients.slots[1].val.id < last.id

\* C15: a network_dispatch_response call adds no entry to the registry and
\* removes none, also when a session becomes disconnected while the packet
\* is delivered to it: the same sessions stay at the same indexes and
\* addresses. A registered session leaves the registry only in a
\* network_cleanup_clients pass or in network_exit.
C15_DispatchKeepsRegistry ==
    [][/\ last'.op = "dispatch" =>
              /\ IdsInOrder(clients') = IdsInOrder(clients)
              /\ \A k \in 1..array_count(clients) :
                     array_get(clients', k) = array_get(clients, k)
              /\ last'.failed => DisconnectedIds(clients') # {}
       /\ RegisteredIds(clients) \ RegisteredIds(clients') # {}
              => last'.op \in {"cleanup", "exit"}]_vars

C15_Witness ==
    /\ Dispatched /\ last.failed
    /\ Len(last.registry) = 2
    /\ IdsInOrder(clients) = last.registry
    /\ Cardinality(DisconnectedIds(clients)) = 1

\* C16: a registered session whose disconnected flag is set keeps the flag
\* while it is registered, and, network_cleanup_clients being called again
\* and again, is eventually destroyed and no longer registered; the first
\* cleanup pass that runs after the flag is set destroys and removes it.
C16_DisconnectedEventuallyRemoved ==
    /\ \A id \in 1..MaxAccepts :
           (id \in DisconnectedIds(clients))
               ~> (id \notin RegisteredIds(clients))
    /\ [][/\ DisconnectedIds(clients) \cap RegisteredIds(clients')
                 \subseteq DisconnectedIds(clients')
          /\ last'.op = "cleanup" =>
                 /\ DisconnectedIds(clients) \subseteq Range(last'.destroyed)
                 /\ DisconnectedIds(clients) \cap RegisteredIds(clients')
                        = {}]_vars

C16_Witness ==
    /\ last.op = "cleanup"
    /\ Len(last.destroyed) = 1
    /\ array_count(clients) = MaxClients - 1
    /\ \A k \in 1..array_count(clients) :
           clients.slots[k].val.id < last.destroyed[1]

\* C17: one readable event on a server socket takes at most one connection
\* from socket_accept and adds at most one session, the one of that
\* connection, and removes none; whatever the outcome, both listeners and
\* their open flags are as before; when socket_accept fails or is
\* interrupted the registry and the counter are unchanged; when the
\* hostname lookup fails network_create_client is still called, with the
\* name "<unknown>", and registers the session unless it fails itself.
C17_AcceptOneKeepsListener ==
    [][last'.op = "accept" =>
        /\ accepts' = accepts + (IF last'.accepted THEN 1 ELSE 0)
        /\ RegisteredIds(clients) \subseteq RegisteredIds(clients')
        /\ RegisteredIds(clients') \ RegisteredIds(clients)
               \subseteq {accepts + 1}
        /\ array_count(clients') <= array_count(clients) + 1
        /\ plain_open' = plain_open /\ websocket_open' = websocket_open
        /\ plain_sock' = plain_sock /\ websocket_sock' = websocket_sock
        /\ lifecycle' = "running"
        /\ ~last'.accepted =>
               /\ clients' = clients
               /\ next_nonce' = next_nonce
        /\ (last'.accepted /\ ~last'.hostname_ok) =>
               /\ last'.name = "<unknown>"
               /\ (last'.append_ok /\ last'.create_ok) =>
                      /\ last'.created
                      /\ last'.id \in RegisteredIds(clients')
        /\ (last'.accepted /\ last'.hostname_ok) =>
               last'.name \in {"host:port", "[host]:port"}]_vars

C17_Witness ==
    /\ Accepted /\ ~last.hostname_ok /\ last.created
    /\ last.name = "<unknown>"
    /\ last.id \in RegisteredIds(clients)
    /\ plain_open /\ ~websocket_open /\ websocket_port # 0
    /\ ListenerOpen(plain_sock)

\* C18: client_destroy, which closes a session's socket, runs once on every
\* session that was registered: a registered session leaves the registry
\* only in a step that hands it to client_destroy, once, and that step is
\* either a network_cleanup_clients pass or network_exit; the accept handler
\* does not close the socket of a session it registered; a session that
\* left never comes back, since a new session gets an id above every
\* earlier one; after network_exit no session is registered.
C18_SessionClosedOnce ==
    /\ [](/\ \A k \in 1..array_count(clients) :
                clients.slots[k].val.id \in 1..accepts
          /\ Cardinality(RegisteredIds(clients)) = array_count(clients)
          /\ (Accepted /\ last.created) => last.closes = 0
          /\ lifecycle = "exited" => array_count(clients) = 0)
    /\ [][LET gone == RegisteredIds(clients) \ RegisteredIds(clients')
          IN  /\ IF last'.op \in {"cleanup", "exit"}
                 THEN /\ Range(last'.destroyed) = gone
                      /\ Len(last'.destroyed) = Cardinality(gone)
                 ELSE gone = {}
              /\ RegisteredIds(clients') \ RegisteredIds(clients)
                     \subseteq {accepts + 1}
              /\ accepts' >= accepts]_vars

C18_Witness ==
    /\ last.op = "exit" /\ lifecycle = "exited"
    /\ last.destroyed = <<2, 4>>
    /\ array_count(clients) = 0

\* C19: a network_create_client call whose append succeeds advances the
\* nonce counter by exactly 1 modulo the counter width, whether client_create
\* then succeeds or fails; a call whose append fails, and an accept that
\* yields no connection, leave the counter unchanged. A session created gets
\* the value the counter had before the call, so the counter is always the
\* seed plus the number of client_create calls made, and the session
\* created right after a failed client_create does not get the value that
\* call consumed.
C19_NonceConsumedPerAppend ==
    /\ [](/\ next_nonce = (nonce_seed + creates) % NonceMod
          /\ \A k \in 1..array_count(clients) :
                 /\ clients.slots[k].val.call < creates
                 /\ clients.slots[k].val.nonce =
                        (nonce_seed + clients.slots[k].val.call) % NonceMod)
    /\ [][last'.op = "accept" =>
            /\ IF last'.accepted /\ last'.append_ok
               THEN /\ next_nonce' = (next_nonce + 1) % NonceMod
                    /\ next_nonce' # next_nonce
                    /\ creates' = creates + 1
                    /\ last'.nonce = next_nonce
               ELSE /\ next_nonce' = next_nonce
                    /\ creates' = creates
            /\ (last'.accepted /\ last'.created) =>
                   /\ SessionOf(clients', last'.id).nonce = next_nonce
                   /\ SessionOf(clients', last'.id).call = creates
                   /\ (Accepted /\ last.append_ok /\ ~last.create_ok) =>
                          SessionOf(clients', last'.id).nonce # last.nonce]_vars

C19_Witness ==
    /\ Accepted /\ last.append_ok /\ ~last.create_ok
    /\ last.nonce = NonceMod - 1
    /\ next_nonce = 0
    /\ creates >= 2

\* a listener no call has left open or registered: every socket created
\* was destroyed and no event source was added
ListenerReleased(sock) ==
    sock.destroyed = sock.created /\ sock.added = 0 /\ sock.removed = 0

\* C20: whenever network_init returns failure, neither listener is open or
\* registered as an event source, both open flags are false and no client
\* array is allocated: either array_create failed and no listener was
\* attempted, or every enabled listener's open failed, rolled back what it
\* had created, and the array was destroyed before the return.
C20_FailedInitLeavesNothing ==
    /\ (last.op = "init" /\ last.ret < 0) <=> lifecycle = "init_failed"
    /\ lifecycle = "init_failed" =>
           /\ ~plain_open /\ ~websocket_open
           /\ ListenerReleased(plain_sock)
           /\ ListenerReleased(websocket_sock)
           /\ clients = NoArray
           /\ IF last.array
              THEN /\ last.plain = "failed"
                   /\ last.websocket \in {"failed", "disabled"}
              ELSE plain_sock = NoSocket /\ websocket_sock = NoSocket

C20_Witness ==
    /\ lifecycle = "init_failed" /\ last.array
    /\ websocket_port # 0
    /\ plain_sock.created = 1 /\ plain_sock.destroyed = 1
    /\ websocket_sock.created = 0

=============================================================================
